---- MODULE Spec2Model ----
(***************************************************************************)
(* Content Coverage & Gap Scoring Engine (utils/gap_analyzer.py).          *)
(*                                                                         *)
(* Numbers.  Python computes content_count, coverage_score and priority    *)
(* as floats with at most one decimal digit.  They are kept here as exact  *)
(* integers counting TENTHS: content_count 1.0 is 10, 0.5 is 5,            *)
(* coverage_score 44.0 is 440, priority 100 is 1000.  avg_quality is a     *)
(* mean and may have no finite decimal expansion; it is kept as the exact  *)
(* fraction [num, den].  round(x, 1) is modelled by RoundDiv, the nearest  *)
(* tenth; for cells of fewer than 8 items no value lies on a rounding tie  *)
(* (a tie needs len(content_items) divisible by 8), and the float result   *)
(* equals the exact one.                                                   *)
(***************************************************************************)
EXTENDS Integers, Sequences, FiniteSets, TLC

VARIABLES personas,          \* GapAnalyzer.personas: the roster (list of persona dicts)
          coverage_matrix,   \* GapAnalyzer.coverage_matrix: ordered dict persona -> stage -> cell
          analyzed_content,  \* the caller's list of classification records
          last_op,           \* name of the step taken last
          ret,               \* value returned by the step taken last
          runs,              \* analyze_coverage calls in a row on this roster and list (up to MaxRuns)
          had_counts,        \* whether some cell had content before the step taken last
          args,              \* inputs of the step taken last: its arguments and the oracle's answers
          remembered,        \* an earlier call kept for comparison: its inputs and its result
          rounding,          \* per stage, whether the float mean of the matrix's scores rounds up on a tie
          session            \* st.session_state of the application (None outside the application)

vars == <<personas, coverage_matrix, analyzed_content, last_op, ret, runs, had_counts,
          args, remembered, rounding, session>>

----------------------------------------------------------------------------
(* Bounds *)

MaxPersonas == 2
MaxRecords == 2
MaxCellRecords == 5
MaxRuns == 2
MaxReportRecords == 3
MaxAnalyzed == 2
MaxScoreItems == 3
MaxListRecords == 4
MaxPriorityRecords == 2
MaxSessionPersonas == 2
MaxSessionItems == 1
MaxMentions == 8

----------------------------------------------------------------------------
(* Configuration (config.py) *)

\* list(FUNNEL_STAGES.keys()): the stages in declaration order
funnel_stages == <<"awareness", "consideration", "decision">>

FUNNEL_STAGES ==
    [awareness |-> [name |-> "Awareness"],
     consideration |-> [name |-> "Consideration"],
     decision |-> [name |-> "Decision"]]

SCORING_THRESHOLDS == [strong |-> 70, moderate |-> 40, gap |-> 0]

max_content_per_cell == 5

None == "None"

----------------------------------------------------------------------------
(* Helpers *)

Range(s) == {s[i] : i \in 1..Len(s)}

Min(a, b) == IF a < b THEN a ELSE b

\* dict.get(key, default)
Get(d, key, default) == IF key \in DOMAIN d THEN d[key] ELSE default

RECURSIVE SumSeq(_)
SumSeq(s) == IF s = <<>> THEN 0 ELSE s[1] + SumSeq(Tail(s))

\* round(num / den, 0) for num >= 0, den > 0: nearest integer, ties to even
RoundDiv(num, den) ==
    LET q == num \div den
        r == num % den
    IN  IF 2 * r > den \/ (2 * r = den /\ q % 2 = 1) THEN q + 1 ELSE q

----------------------------------------------------------------------------
(* The coverage matrix: a Python dict keeps its keys in insertion order, so *)
(* it is the record [keys, cells] of the key order and the mapping.        *)

EmptyMatrix == [keys |-> <<>>, cells |-> <<>>]

EmptyCell ==
    [content_count |-> 0,
     content_items |-> <<>>,
     avg_quality |-> [num |-> 0, den |-> 1],
     coverage_score |-> 0,
     status |-> "gap"]

PersonaName(persona) == Get(persona, "name", "Unknown")

\* key order after assigning coverage_matrix[name] = {} for each persona in
\* turn: a repeated name keeps the position of its first assignment
RECURSIVE MatrixKeys(_)
MatrixKeys(ps) ==
    IF ps = <<>> THEN <<>>
    ELSE LET before == MatrixKeys(SubSeq(ps, 1, Len(ps) - 1))
             name == PersonaName(ps[Len(ps)])
         IN  IF name \in Range(before) THEN before ELSE Append(before, name)

InitializeMatrix(ps) ==
    LET keys == MatrixKeys(ps)
    IN  [keys |-> keys,
         cells |-> [name \in Range(keys) |->
                       [stage \in Range(funnel_stages) |-> EmptyCell]]]

HasCell(matrix, name, stage) ==
    /\ name \in DOMAIN matrix.cells
    /\ stage \in DOMAIN matrix.cells[name]

\* the loop body for the primary persona of one record
AddPrimary(matrix, content) ==
    LET primary_persona == Get(content, "primary_persona", "Unknown")
        stage == Get(content, "funnel_stage", "awareness")
        quality == Get(content, "quality_score", 50)
        item == [title |-> Get(content, "original_title", "Untitled"),
                 source |-> Get(content, "original_source", ""),
                 quality |-> quality]
    IN  IF HasCell(matrix, primary_persona, stage)
        THEN [matrix EXCEPT
                !.cells[primary_persona][stage].content_count = @ + 10,
                !.cells[primary_persona][stage].content_items = Append(@, item)]
        ELSE matrix

\* secondary personas counted like the primary one: 1.0 instead of 0.5
RECURSIVE AddSecondaryFull(_, _, _)
AddSecondaryFull(matrix, stage, secondary) ==
    IF secondary = <<>> THEN matrix
    ELSE LET secondary_persona == Head(secondary)
             m == IF HasCell(matrix, secondary_persona, stage)
                  THEN [matrix EXCEPT
                          !.cells[secondary_persona][stage].content_count = @ + 10]
                  ELSE matrix
         IN  AddSecondaryFull(m, stage, Tail(secondary))

\* the inner loop over secondary_personas of one record
RECURSIVE AddSecondary(_, _, _)
AddSecondary(matrix, stage, secondary) ==
    IF secondary = <<>> THEN matrix
    ELSE LET secondary_persona == Head(secondary)
             m == IF HasCell(matrix, secondary_persona, stage)
                  THEN [matrix EXCEPT
                          !.cells[secondary_persona][stage].content_count = @ + 5]
                  ELSE matrix
         IN  AddSecondary(m, stage, Tail(secondary))

AddContent(matrix, content) ==
    AddSecondary(AddPrimary(matrix, content),
                 Get(content, "funnel_stage", "awareness"),
                 Get(content, "secondary_personas", <<>>))

RECURSIVE Aggregate(_, _)
Aggregate(matrix, contents) ==
    IF contents = <<>> THEN matrix
    ELSE Aggregate(AddContent(matrix, Head(contents)), Tail(contents))

----------------------------------------------------------------------------
(* Scoring *)

\* the thresholds compared with > instead of >=
StatusOfStrict(coverage_score) ==
    IF coverage_score > 10 * SCORING_THRESHOLDS.strong THEN "strong"
    ELSE IF coverage_score > 10 * SCORING_THRESHOLDS.moderate THEN "moderate"
    ELSE "gap"

StatusOf(coverage_score) ==
    IF coverage_score >= 10 * SCORING_THRESHOLDS.strong THEN "strong"
    ELSE IF coverage_score >= 10 * SCORING_THRESHOLDS.moderate THEN "moderate"
    ELSE "gap"

\* avg_quality taken from the first content item alone
AvgQualityFirst(content_items) ==
    IF content_items # <<>>
    THEN [num |-> content_items[1].quality, den |-> 1]
    ELSE [num |-> 0, den |-> 1]

\* avg_quality of content_items, 50 for a cell without items
AvgQualityDefault(content_items) ==
    IF content_items # <<>>
    THEN [num |-> SumSeq([i \in 1..Len(content_items) |-> content_items[i].quality]),
          den |-> Len(content_items)]
    ELSE [num |-> 50, den |-> 1]

\* avg_quality of a cell, as the exact fraction sum(qualities) / len(qualities)
AvgQuality(content_items) ==
    IF content_items # <<>>
    THEN [num |-> SumSeq([i \in 1..Len(content_items) |-> content_items[i].quality]),
          den |-> Len(content_items)]
    ELSE [num |-> 0, den |-> 1]

\* content_score without the cap: content_count / max_content_per_cell * 100
CoverageScoreUncapped(content_count, avg_quality) ==
    LET content_score == (content_count * 10) \div max_content_per_cell
    IN  RoundDiv(6 * content_score * avg_quality.den + 4 * avg_quality.num,
                 avg_quality.den)

\* equal weights: content_score * 0.5 + avg_quality * 0.5
CoverageScoreEvenWeights(content_count, avg_quality) ==
    LET content_score == Min(100, (content_count * 10) \div max_content_per_cell)
    IN  RoundDiv(5 * content_score * avg_quality.den + 5 * avg_quality.num,
                 avg_quality.den)

\* the two weights exchanged: content_score * 0.4 + avg_quality * 0.6
CoverageScoreSwapped(content_count, avg_quality) ==
    LET content_score == Min(100, (content_count * 10) \div max_content_per_cell)
    IN  RoundDiv(4 * content_score * avg_quality.den + 6 * avg_quality.num,
                 avg_quality.den)

\* round(content_score * 0.6 + avg_quality * 0.4, 1), in tenths, with
\* content_score = min(100, content_count / max_content_per_cell * 100)
CoverageScore(content_count, avg_quality) ==
    LET content_score == Min(100, (content_count * 10) \div max_content_per_cell)
    IN  RoundDiv(6 * content_score * avg_quality.den + 4 * avg_quality.num,
                 avg_quality.den)

\* the loop body of _calculate_scores for one cell
ScoreCell(cell) ==
    LET avg_quality == AvgQuality(cell.content_items)
        coverage_score == CoverageScore(cell.content_count, avg_quality)
    IN  [cell EXCEPT !.avg_quality = avg_quality,
                     !.coverage_score = coverage_score,
                     !.status = StatusOf(coverage_score)]

CalculateScores(matrix) ==
    [matrix EXCEPT !.cells =
        [name \in DOMAIN matrix.cells |->
            [stage \in DOMAIN matrix.cells[name] |->
                ScoreCell(matrix.cells[name][stage])]]]

\* analyze_coverage: _initialize_matrix, the aggregation loop, _calculate_scores
AnalyzeCoverageResult(ps, contents) ==
    CalculateScores(Aggregate(InitializeMatrix(ps), contents))

----------------------------------------------------------------------------
(* Gap extraction *)

\* the (persona, stage) pairs in the order the nested loops visit them
RECURSIVE CellOrder(_, _)
CellOrder(matrix, k) ==
    IF k > Len(matrix.keys) THEN <<>>
    ELSE [i \in 1..Len(funnel_stages) |-> <<matrix.keys[k], funnel_stages[i]>>]
         \o CellOrder(matrix, k + 1)

\* _calculate_priority without the additions for the stage
CalculatePriorityFlat(persona_name, stage, cell) ==
    Min(1000, 1000 - cell.coverage_score)

\* _calculate_priority without the cap at 100
CalculatePriorityNoCap(persona_name, stage, cell) ==
    LET base == 1000 - cell.coverage_score
    IN  IF stage = "decision" THEN base + 200
        ELSE IF stage = "consideration" THEN base + 100
        ELSE base

CalculatePriority(persona_name, stage, cell) ==
    LET base == 1000 - cell.coverage_score
        priority == IF stage = "decision" THEN base + 200
                    ELSE IF stage = "consideration" THEN base + 100
                    ELSE base
    IN  Min(1000, priority)

GapOf(matrix, persona_name, stage) ==
    LET cell == matrix.cells[persona_name][stage]
    IN  [persona |-> persona_name,
         stage |-> stage,
         stage_name |-> Get(Get(FUNNEL_STAGES, stage, <<>>), "name", stage),
         coverage_score |-> cell.coverage_score,
         content_count |-> cell.content_count,
         priority |-> CalculatePriority(persona_name, stage, cell)]

\* an insertion that puts a gap before the gaps of equal priority
RECURSIVE InsertBeforeEqual(_, _)
InsertBeforeEqual(sorted, g) ==
    IF sorted = <<>> THEN <<g>>
    ELSE LET last == sorted[Len(sorted)]
         IN  IF last.priority > g.priority THEN Append(sorted, g)
             ELSE Append(InsertBeforeEqual(SubSeq(sorted, 1, Len(sorted) - 1), g), last)

\* list.sort(key=priority, reverse=True): stable, equal keys keep their order
RECURSIVE InsertByPriority(_, _)
InsertByPriority(sorted, g) ==
    IF sorted = <<>> THEN <<g>>
    ELSE LET last == sorted[Len(sorted)]
         IN  IF last.priority >= g.priority THEN Append(sorted, g)
             ELSE Append(InsertByPriority(SubSeq(sorted, 1, Len(sorted) - 1), g), last)

RECURSIVE SortByPriority(_)
SortByPriority(gaps) ==
    IF gaps = <<>> THEN <<>>
    ELSE InsertByPriority(SortByPriority(SubSeq(gaps, 1, Len(gaps) - 1)),
                          gaps[Len(gaps)])

\* a gap taken to be a cell without content
IsGapCellEmpty(matrix, pair) == matrix.cells[pair[1]][pair[2]].content_count = 0

IsGapCell(matrix, pair) == matrix.cells[pair[1]][pair[2]].status = "gap"

GetGapsResult(matrix) ==
    LET order == CellOrder(matrix, 1)
        found == SelectSeq(order, LAMBDA pair : IsGapCell(matrix, pair))
    IN  SortByPriority([i \in 1..Len(found) |-> GapOf(matrix, found[i][1], found[i][2])])

----------------------------------------------------------------------------
(* Strengths, moderate areas and the summaries *)

\* list[:n]
Take(s, n) == SubSeq(s, 1, Min(n, Len(s)))

\* a strength with all the content items of its cell
StrengthOfAll(matrix, persona_name, stage) ==
    LET cell == matrix.cells[persona_name][stage]
    IN  [persona |-> persona_name,
         stage |-> stage,
         stage_name |-> Get(Get(FUNNEL_STAGES, stage, <<>>), "name", stage),
         coverage_score |-> cell.coverage_score,
         content_count |-> cell.content_count,
         top_content |-> cell.content_items]

StrengthOf(matrix, persona_name, stage) ==
    LET cell == matrix.cells[persona_name][stage]
    IN  [persona |-> persona_name,
         stage |-> stage,
         stage_name |-> Get(Get(FUNNEL_STAGES, stage, <<>>), "name", stage),
         coverage_score |-> cell.coverage_score,
         content_count |-> cell.content_count,
         top_content |-> Take(cell.content_items, 3)]

GetStrengthsResult(matrix) ==
    LET order == CellOrder(matrix, 1)
        found == SelectSeq(order,
                     LAMBDA pair : matrix.cells[pair[1]][pair[2]].status = "strong")
    IN  [i \in 1..Len(found) |-> StrengthOf(matrix, found[i][1], found[i][2])]

ModerateOf(matrix, persona_name, stage) ==
    LET cell == matrix.cells[persona_name][stage]
    IN  [persona |-> persona_name,
         stage |-> stage,
         stage_name |-> Get(Get(FUNNEL_STAGES, stage, <<>>), "name", stage),
         coverage_score |-> cell.coverage_score,
         content_count |-> cell.content_count,
         improvement_potential |-> 1000 - cell.coverage_score]

GetModerateAreasResult(matrix) ==
    LET order == CellOrder(matrix, 1)
        found == SelectSeq(order,
                     LAMBDA pair : matrix.cells[pair[1]][pair[2]].status = "moderate")
    IN  [i \in 1..Len(found) |-> ModerateOf(matrix, found[i][1], found[i][2])]

\* an exception leaving a call
Raised(exception) == [raised |-> exception]

IsRaised(value) == DOMAIN value = {"raised"}

\* the record get_summary_stats returns; percentages in tenths
StatsRecord(total_cells, gaps, moderate, strengths, gap_percentage, coverage_percentage) ==
    [total_cells |-> total_cells,
     gap_count |-> Len(gaps),
     moderate_count |-> Len(moderate),
     strong_count |-> Len(strengths),
     gap_percentage |-> gap_percentage,
     coverage_percentage |-> coverage_percentage,
     highest_priority_gap |-> IF gaps # <<>> THEN <<gaps[1]>> ELSE <<>>]

\* get_summary_stats without the guards "if total_cells > 0 else 0"
GetSummaryStatsUnguarded(ps, matrix) ==
    LET total_cells == Len(ps) * Len(funnel_stages)
        gaps == GetGapsResult(matrix)
        strengths == GetStrengthsResult(matrix)
        moderate == GetModerateAreasResult(matrix)
    IN  IF total_cells = 0 THEN Raised("ZeroDivisionError")
        ELSE StatsRecord(total_cells, gaps, moderate, strengths,
                         RoundDiv(Len(gaps) * 1000, total_cells),
                         RoundDiv((Len(strengths) + Len(moderate)) * 1000, total_cells))

\* get_summary_stats(); highest_priority_gap is the list of at most one gap
GetSummaryStatsResult(ps, matrix) ==
    LET total_cells == Len(ps) * Len(funnel_stages)
        gaps == GetGapsResult(matrix)
        strengths == GetStrengthsResult(matrix)
        moderate == GetModerateAreasResult(matrix)
    IN  StatsRecord(total_cells, gaps, moderate, strengths,
                    IF total_cells > 0
                    THEN RoundDiv(Len(gaps) * 1000, total_cells) ELSE 0,
                    IF total_cells > 0
                    THEN RoundDiv((Len(strengths) + Len(moderate)) * 1000, total_cells)
                    ELSE 0)

\* a mean cut to its tenth instead of rounded
RoundMeanFloor(num, den, up) == num \div den

\* round(num / den, 1) of a mean: the nearest tenth; a mean that lies exactly
\* between two tenths is rounded by its float representation, up or down
RoundMean(num, den, up) ==
    IF 2 * (num % den) = den
    THEN (IF up THEN (num \div den) + 1 ELSE num \div den)
    ELSE RoundDiv(num, den)

StageData(matrix, stage, up) ==
    LET names == matrix.keys
        scores == [i \in 1..Len(names) |-> matrix.cells[names[i]][stage].coverage_score]
        counts == [i \in 1..Len(names) |-> matrix.cells[names[i]][stage].content_count]
    IN  [total_content |-> SumSeq(counts),
         avg_coverage |-> IF scores # <<>>
                          THEN RoundMean(SumSeq(scores), Len(scores), up) ELSE 0,
         personas_with_gaps |->
             SelectSeq(names, LAMBDA name : matrix.cells[name][stage].status = "gap")]

\* get_stage_summary(), ups: the rounding of a mean on a tie, per stage
GetStageSummaryResult(matrix, ups) ==
    [stage \in Range(funnel_stages) |-> StageData(matrix, stage, ups[stage])]

\* whether sum(scores) / len(scores) of a stage lies exactly between two tenths
IsTie(matrix, stage) ==
    LET names == matrix.keys
        scores == [i \in 1..Len(names) |-> matrix.cells[names[i]][stage].coverage_score]
    IN  scores # <<>> /\ 2 * (SumSeq(scores) % Len(scores)) = Len(scores)

\* The floats of a matrix fix how round(., 1) resolves each of its ties: the
\* directions a matrix can have, FALSE where the stage has no tie.
TieRoundings(matrix) ==
    {ups \in [Range(funnel_stages) -> BOOLEAN] :
        \A stage \in Range(funnel_stages) : ups[stage] => IsTie(matrix, stage)}

\* the loop of get_persona_summary with >= in place of >
RECURSIVE StrongestFromLax(_, _, _, _, _)
StrongestFromLax(matrix, persona_name, i, max_score, max_stage) ==
    IF i > Len(funnel_stages) THEN max_stage
    ELSE LET stage == funnel_stages[i]
             score == matrix.cells[persona_name][stage].coverage_score
         IN  IF score >= max_score
             THEN StrongestFromLax(matrix, persona_name, i + 1, score, <<stage>>)
             ELSE StrongestFromLax(matrix, persona_name, i + 1, max_score, max_stage)

\* the loop of get_persona_summary over the stages from stage i on:
\* max_score and max_stage are updated on a strictly greater score
RECURSIVE StrongestFrom(_, _, _, _, _)
StrongestFrom(matrix, persona_name, i, max_score, max_stage) ==
    IF i > Len(funnel_stages) THEN max_stage
    ELSE LET stage == funnel_stages[i]
             score == matrix.cells[persona_name][stage].coverage_score
         IN  IF score > max_score
             THEN StrongestFrom(matrix, persona_name, i + 1, score, <<stage>>)
             ELSE StrongestFrom(matrix, persona_name, i + 1, max_score, max_stage)

\* strongest_stage: <<>> is None, <<stage>> a stage
StrongestStage(matrix, persona_name) ==
    StrongestFrom(matrix, persona_name, 1, 0, <<>>)

PersonaData(matrix, persona_name) ==
    LET scores == [i \in 1..Len(funnel_stages) |->
                      matrix.cells[persona_name][funnel_stages[i]].coverage_score]
        counts == [i \in 1..Len(funnel_stages) |->
                      matrix.cells[persona_name][funnel_stages[i]].content_count]
    IN  [total_content |-> SumSeq(counts),
         avg_coverage |-> RoundDiv(SumSeq(scores), Len(scores)),
         stages_with_gaps |->
             SelectSeq(funnel_stages,
                       LAMBDA stage : matrix.cells[persona_name][stage].status = "gap"),
         strongest_stage |-> StrongestStage(matrix, persona_name)]

GetPersonaSummaryResult(matrix) ==
    [persona_name \in DOMAIN matrix.cells |-> PersonaData(matrix, persona_name)]

----------------------------------------------------------------------------
(* The oracle and its response text *)

\* A response text is a sequence of tokens: the fence markers, prose words
\* and JSON documents.  "[fence]" stands for the three backquotes that open
\* and close a code block, "[fence]json" for the three backquotes followed by
\* json; the first is a substring of the second.
Fences == {"[fence]", "[fence]json"}

Contains(text, marks) == \E i \in 1..Len(text) : text[i] \in marks

\* the first place of one of the marks in the text
IndexOf(text, marks) ==
    CHOOSE i \in 1..Len(text) :
        /\ text[i] \in marks
        /\ \A j \in 1..(i - 1) : text[j] \notin marks

\* text.split(mark)[0] for a mark that may be absent
Before(text, marks) ==
    IF Contains(text, marks) THEN SubSeq(text, 1, IndexOf(text, marks) - 1)
    ELSE text

\* text.split(mark)[1] for a mark that is present
After(text, i) == SubSeq(text, i + 1, Len(text))

\* the clean-up of the response: the part inside the first fence
StripFences(response_text) ==
    IF Contains(response_text, {"[fence]json"})
    THEN Before(Before(After(response_text, IndexOf(response_text, {"[fence]json"})),
                       {"[fence]json"}),
                Fences)
    ELSE IF Contains(response_text, Fences)
    THEN Before(After(response_text, IndexOf(response_text, Fences)), Fences)
    ELSE response_text

\* the strategy an oracle writes, with every field of the requested format
OracleStrategy ==
    [executive_summary |-> "summary",
     priority_content_to_create |-> <<>>,
     content_improvements |-> <<>>,
     quarterly_calendar |-> [month_1 |-> <<>>, month_2 |-> <<>>, month_3 |-> <<>>],
     persona_specific_recommendations |-> <<>>,
     quick_wins |-> <<>>,
     long_term_initiatives |-> <<>>,
     metrics_to_track |-> <<>>]

\* the classification an oracle writes, in the requested format
OracleAnalysis(primary, stage) ==
    [content_type |-> "blog_post",
     primary_persona |-> primary,
     secondary_personas |-> <<>>,
     funnel_stage |-> stage,
     funnel_confidence |-> 90,
     quality_score |-> 80,
     summary |-> "summary"]

\* the JSON documents of the model and the values json.loads gives for them;
\* "[]" is a JSON array, every other document a JSON object
JsonDocuments ==
    [doc \in {"{strategy}", "{summary}", "{}", "[]", "{CMO decision}",
              "{CFO retention}"} |->
        CASE doc = "{strategy}" -> OracleStrategy
          [] doc = "{summary}" -> [executive_summary |-> "summary"]
          [] doc = "{CMO decision}" -> OracleAnalysis("CMO", "decision")
          [] doc = "{CFO retention}" -> OracleAnalysis("CFO", "retention")
          [] OTHER -> <<>>]

JsonArrays == {"[]"}

\* json.loads(text.strip()): the value of the one document the text consists
\* of, JSONDecodeError for any other text
Parses(text) == Len(text) = 1 /\ text[1] \in DOMAIN JsonDocuments

JsonLoads(text) == JsonDocuments[text[1]]

\* an oracle call: no client, a client whose call raises, or a response text
Oracle(client, raises, response_text) ==
    [client |-> client, raises |-> raises, response_text |-> response_text]

NoClient == Oracle(FALSE, FALSE, <<>>)

RaisingClient == Oracle(TRUE, TRUE, <<>>)

Responding(response_text) == Oracle(TRUE, FALSE, response_text)

----------------------------------------------------------------------------
(* Strategy generation *)

HasName(p) == "name" \in DOMAIN p

PriorityContent(gap) ==
    [title |-> <<gap.persona, gap.stage_name>>,
     type |-> IF gap.stage = "decision" THEN "case_study"
              ELSE IF gap.stage = "consideration" THEN "whitepaper"
              ELSE "blog_post",
     target_persona |-> gap.persona,
     funnel_stage |-> gap.stage,
     priority |-> IF gap.priority > 700 THEN "high" ELSE "medium",
     rationale |-> <<gap.persona, gap.stage_name>>,
     key_topics |-> <<>>,
     suggested_angle |-> "Address key pain points",
     estimated_effort |-> "medium"]

\* the recommendations for every gap instead of gaps[:5]
PriorityContentOfAll(gaps) ==
    [i \in 1..Len(gaps) |-> PriorityContent(gaps[i])]

\* the loop over gaps[:5]
PriorityContentOf(gaps) ==
    [i \in 1..Len(Take(gaps, 5)) |-> PriorityContent(gaps[i])]

\* _fallback_strategy(gaps, strengths, personas); the texts built from the
\* arguments are modelled by the values they carry
FallbackStrategy(gaps, strengths, ps) ==
    IF \E i \in 1..Len(ps) : ~HasName(ps[i]) THEN Raised("KeyError")
    ELSE
    [executive_summary |-> <<Len(gaps), Len(strengths)>>,
     priority_content_to_create |-> PriorityContentOf(gaps),
     content_improvements |-> <<"General">>,
     quarterly_calendar |-> [month_1 |-> <<>>, month_2 |-> <<>>, month_3 |-> <<>>],
     persona_specific_recommendations |->
         [name \in {ps[i].name : i \in 1..Len(ps)} |->
             [key_insight |-> "Manual analysis recommended",
              content_priorities |-> <<>>,
              messaging_themes |-> <<>>,
              content_types_to_focus |-> <<>>]],
     quick_wins |-> <<"Review and update existing content titles and meta descriptions">>,
     long_term_initiatives |-> <<>>,
     metrics_to_track |-> <<"Content per persona/stage">>]

\* generate_strategy(gaps, strengths, personas, ...) under an oracle
GenerateStrategyResult(gaps, strengths, ps, oracle) ==
    IF ~oracle.client THEN FallbackStrategy(gaps, strengths, ps)
    ELSE IF \E i \in 1..Len(ps) : ~HasName(ps[i]) THEN Raised("KeyError")
    ELSE IF oracle.raises THEN FallbackStrategy(gaps, strengths, ps)
    ELSE LET text == StripFences(oracle.response_text)
         IN  IF Parses(text) THEN JsonLoads(text)
             ELSE FallbackStrategy(gaps, strengths, ps)

----------------------------------------------------------------------------
(* Content classification *)

\* A text is the sequence of its words; a word of the model occurs in a text
\* only as a whole word.  An optional value is <<>> (None) or <<value>>.

\* str.lower() of a word
LowerWord(word) ==
    CASE word = "Pricing" -> "pricing"
      [] word = "Compare" -> "compare"
      [] word = "Case" -> "case"
      [] word = "Cost" -> "cost"
      [] OTHER -> word

Lower(text) == [i \in 1..Len(text) |-> LowerWord(text[i])]

\* keyword in text
Occurs(keyword, text) ==
    \E i \in 0..(Len(text) - Len(keyword)) :
        SubSeq(text, i + 1, i + Len(keyword)) = keyword

awareness_keywords ==
    <<(<<"what", "is">>), <<"introduction">>, <<"guide">>, <<"tips">>,
      <<"how", "to", "start">>, <<"basics">> >>

consideration_keywords ==
    <<(<<"compare">>), <<"vs">>, <<"alternative">>, <<"solution">>,
      <<"platform">>, <<"tool">> >>

decision_keywords ==
    <<(<<"case", "study">>), <<"testimonial">>, <<"pricing">>, <<"demo">>,
      <<"trial">>, <<"buy">> >>

\* any(kw in text or kw in title for kw in keywords)
AnyKeyword(keywords, text, title) ==
    \E i \in 1..Len(keywords) : Occurs(keywords[i], text) \/ Occurs(keywords[i], title)

\* the stage with the consideration keywords tried first
FunnelStageConsiderationFirst(text, title) ==
    IF AnyKeyword(consideration_keywords, text, title) THEN "consideration"
    ELSE IF AnyKeyword(decision_keywords, text, title) THEN "decision"
    ELSE "awareness"

FunnelStage(text, title) ==
    IF AnyKeyword(decision_keywords, text, title) THEN "decision"
    ELSE IF AnyKeyword(consideration_keywords, text, title) THEN "consideration"
    ELSE "awareness"

\* a score that grows with the number of records analysed so far
PersonaScoreDrifting(persona, text) ==
    LET persona_keywords == Get(persona, "pain_points", <<>>) \o Get(persona, "goals", <<>>)
        found == SelectSeq(persona_keywords, LAMBDA keyword : Occurs(Lower(keyword), text))
    IN  Min(50 + 10 * Len(found) + 10 * Len(analyzed_content), 100)

\* the score of one persona: 50 plus 10 for every entry of
\* pain_points + goals whose lower case occurs in the text, at most 100
PersonaScore(persona, text) ==
    LET persona_keywords == Get(persona, "pain_points", <<>>) \o Get(persona, "goals", <<>>)
        found == SelectSeq(persona_keywords, LAMBDA keyword : Occurs(Lower(keyword), text))
    IN  Min(50 + 10 * Len(found), 100)

\* the dict persona_scores: a repeated name keeps its first place and
\* the score of its last persona
PersonaScores(ps, text) ==
    LET keys == MatrixKeys(ps)
    IN  [keys |-> keys,
         scores |-> [name \in Range(keys) |->
                       LET last == CHOOSE i \in 1..Len(ps) :
                                       /\ PersonaName(ps[i]) = name
                                       /\ \A j \in (i + 1)..Len(ps) :
                                              PersonaName(ps[j]) # name
                       IN  PersonaScore(ps[last], text)]]

\* max(persona_scores, key=persona_scores.get): the first key, in insertion
\* order, of the greatest score
MaxKey(persona_scores) ==
    LET i == CHOOSE i \in 1..Len(persona_scores.keys) :
                 /\ \A j \in 1..Len(persona_scores.keys) :
                        persona_scores.scores[persona_scores.keys[j]]
                            <= persona_scores.scores[persona_scores.keys[i]]
                 /\ \A j \in 1..(i - 1) :
                        persona_scores.scores[persona_scores.keys[j]]
                            < persona_scores.scores[persona_scores.keys[i]]
    IN  persona_scores.keys[i]

\* content.get(key) of an optional field
GetOptional(content, key) == Get(content, key, <<>>)

\* _fallback_analysis(content) with the roster ps
FallbackAnalysis(ps, content) ==
    IF "title" \in DOMAIN content /\ content.title = <<>>
    THEN Raised("AttributeError")
    ELSE
    LET text == Lower(Get(content, "content", <<>>))
        title == Lower(Get(content, "title", <<(<<>>)>>)[1])
        persona_scores == PersonaScores(ps, text)
    IN  [content_type |-> Get(content, "type", "unknown"),
         primary_persona |-> IF persona_scores.keys # <<>>
                             THEN MaxKey(persona_scores) ELSE "Unknown",
         secondary_personas |-> <<>>,
         persona_scores |-> persona_scores,
         funnel_stage |-> FunnelStage(text, title),
         funnel_confidence |-> 50,
         topics |-> <<>>,
         intent |-> "educational",
         key_messages |-> <<>>,
         tone |-> "neutral",
         strengths |-> <<>>,
         improvements |-> <<"AI analysis unavailable - manual review recommended">>,
         missing_elements |-> <<>>,
         quality_score |-> 50,
         summary |-> "Automated analysis - AI not available",
         original_title |-> GetOptional(content, "title"),
         original_source |-> GetOptional(content, "source"),
         word_count |-> Len(Get(content, "content", <<>>))]

\* the three assignments of metadata to the parsed analysis
WithMetadata(analysis, content) ==
    [key \in DOMAIN analysis \cup {"original_title", "original_source", "word_count"} |->
        CASE key = "original_title" -> GetOptional(content, "title")
          [] key = "original_source" -> GetOptional(content, "source")
          [] key = "word_count" -> Len(Get(content, "content", <<>>))
          [] OTHER -> analysis[key]]

\* analyze_content(content) with the roster ps, under an oracle
AnalyzeContentResult(ps, content, oracle) ==
    IF ~oracle.client THEN FallbackAnalysis(ps, content)
    ELSE IF oracle.raises THEN FallbackAnalysis(ps, content)
    ELSE LET text == StripFences(oracle.response_text)
         IN  IF Parses(text) /\ text[1] \notin JsonArrays
             THEN WithMetadata(JsonLoads(text), content)
             ELSE FallbackAnalysis(ps, content)

\* the loop of batch_analyze from item i on: the list results it returns,
\* or the exception that leaves it, and the list self.analyzed_content
RECURSIVE BatchFrom(_, _, _, _, _, _)
BatchFrom(ps, contents, oracles, i, results, analyzed) ==
    IF i > Len(contents) THEN [results |-> results, analyzed_content |-> analyzed]
    ELSE LET analysis == AnalyzeContentResult(ps, contents[i], oracles[i])
         IN  IF IsRaised(analysis)
             THEN [raised |-> analysis.raised, analyzed_content |-> analyzed]
             ELSE BatchFrom(ps, contents, oracles, i + 1,
                            Append(results, analysis), Append(analyzed, analysis))

----------------------------------------------------------------------------
(* Inputs *)

PersonaPool == {[name |-> "CMO"], [name |-> "Sales"], [role |-> "Analyst"]}

RECURSIVE SeqsUpTo(_, _)
SeqsUpTo(S, n) ==
    IF n = 0 THEN {<<>>}
    ELSE LET shorter == SeqsUpTo(S, n - 1)
         IN  shorter \cup {Append(s, x) : s \in shorter, x \in S}

Rosters == SeqsUpTo(PersonaPool, MaxPersonas)

Record(primary, stage, quality, secondary, title) ==
    [primary_persona |-> primary, funnel_stage |-> stage, quality_score |-> quality,
     secondary_personas |-> secondary, original_title |-> title,
     original_source |-> "upload"]

Records ==
    {Record(p, s, 50, <<>>, "A") : p \in {"CMO", "Sales"}, s \in Range(funnel_stages)}
    \cup {Record("CMO", "decision", 80, <<>>, "B"),
          Record("CMO", "awareness", 70, <<"Sales", "Sales">>, "C"),
          Record("Other", "decision", 50, <<"CMO">>, "D"),
          Record("CMO", "retention", 80, <<"Sales">>, "E"),
          [original_source |-> "http://f"]}

\* one roster, one cell: the inputs of the scoring function
CellRosters == {<<[name |-> "CMO"]>>}

CellRecords ==
    {Record("CMO", "awareness", q, <<>>, "A") : q \in {50, 80, 100}}
    \cup {Record("Other", "awareness", 50, <<"CMO">>, "D")}

\* the rosters and records of the summaries: up to three personas, cells
\* of every status, equal scores at two stages, means off the tenths
ReportRosters ==
    {<<>>,
     <<[name |-> "CMO"]>>,
     <<[name |-> "CMO"], [name |-> "Sales"]>>,
     <<[name |-> "CMO"], [name |-> "Sales"], [role |-> "Analyst"]>>}

ReportRecords ==
    {Record("CMO", "awareness", 50, <<>>, "A"),
     Record("CMO", "awareness", 100, <<>>, "B"),
     Record("CMO", "decision", 100, <<>>, "C"),
     Record("Sales", "awareness", 50, <<"CMO">>, "D")}

\* the answers of the oracle to the strategy prompt
StrategyOracles ==
    {NoClient, RaisingClient}
    \cup {Responding(text) :
            text \in {<<"{strategy}">>,
                      <<"[fence]json", "{strategy}", "[fence]">>,
                      <<"Here", "[fence]", "{strategy}", "[fence]", "Done">>,
                      <<"Sorry">>,
                      <<"Here", "{strategy}">>,
                      <<"{summary}">>,
                      <<"[fence]json", "{}", "[fence]">>}}

\* the rosters of the classifier: pain points and goals that occur in the
\* texts, a repeated name, a persona without name and with six matches
AnalyzerRosters ==
    LET CMO == [name |-> "CMO", pain_points |-> <<(<<"Cost">>), <<"risk">> >>,
                goals |-> <<>>]
        Sales == [name |-> "Sales", pain_points |-> <<(<<"Cost">>)>>]
        Analyst == [role |-> "Analyst",
                    pain_points |-> <<(<<"cost">>), <<"cost">>, <<"cost">> >>,
                    goals |-> <<(<<"cost">>), <<"cost">>, <<"risk">> >>]
    IN  {<<>>,
         <<CMO>>,
         <<Sales, CMO>>,
         <<CMO, Sales, [name |-> "CMO"]>>,
         <<Analyst, Sales>>}

\* content items: keywords of a stage in the title or in the text, of two
\* stages, of none; a page without title (title None, web_scraper._get_title)
Content(title, text, source) ==
    [title |-> title, content |-> text, source |-> <<source>>, type |-> "document"]

AnalyzerContents ==
    {Content(<<(<<"Pricing">>)>>, <<"Compare", "cost", "risk">>, "upload"),
     Content(<<(<<"Notes">>)>>, <<"Compare", "cost">>, "upload"),
     Content(<<(<<"Notes">>)>>, <<"cost", "risk">>, "upload"),
     Content(<<>>, <<"demo", "cost">>, "http://f"),
     [content |-> <<"Case", "study", "risk">>]}

BatchContents ==
    {Content(<<(<<"Pricing">>)>>, <<"Compare", "cost", "risk">>, "upload"),
     Content(<<>>, <<"demo", "cost">>, "http://f")}

\* the answers of the oracle to the classification prompt
AnalyzerOracles ==
    {NoClient, RaisingClient}
    \cup {Responding(text) :
            text \in {<<"[fence]json", "{CMO decision}", "[fence]">>,
                      <<"{CFO retention}">>,
                      <<"{}">>,
                      <<"[]">>,
                      <<"Sorry">>}}

BatchOracles == {RaisingClient, Responding(<<"{CFO retention}">>)}

\* the rosters of the repeated calls
FallbackRosters ==
    {<<[name |-> "CMO", pain_points |-> <<(<<"Cost">>)>>]>>,
     <<[name |-> "Sales"], [name |-> "CMO", pain_points |-> <<(<<"Cost">>)>>]>>}

\* the rosters and records of the lists: a repeated name; a cell of four
\* items of two titles, secondary mentions, a mean of two scores on a tie
ListRosters ==
    {<<[name |-> "CMO"]>>,
     <<[name |-> "CMO"], [name |-> "Sales"]>>,
     <<[name |-> "CMO"], [name |-> "CMO"]>>}

ListRecords ==
    {Record("CMO", "awareness", 100, <<>>, "A"),
     Record("CMO", "awareness", 50, <<"Sales">>, "B"),
     Record("Sales", "decision", 100, <<"CMO">>, "C")}

\* the roster and records of the priorities: gaps with content at every
\* stage, with scores up to 38.0 and on the value 30.0
PriorityRosters == {<<[name |-> "CMO"]>>}

PriorityRecords ==
    {Record("CMO", stage, quality, secondary, "A") :
        stage \in Range(funnel_stages), quality \in {0, 50},
        secondary \in {<<>>, <<"CMO">>}}

\* the personas of the session: added by hand or extracted from documents,
\* one of them without name
SessionPersonaPool == {[name |-> "CMO"], [name |-> "Sales"], [role |-> "Analyst"]}

\* the answers of the oracle to the strategy prompt of a run
SessionOracles == {NoClient, Responding(<<"{strategy}">>)}

\* two personas whose cells hold the same content items and differ in the
\* secondary mentions they received
ScorePersonas == <<[name |-> "lower"], [name |-> "higher"]>>

ScoreItems == {[title |-> "A", source |-> "upload", quality |-> q] : q \in {0, 50, 100}}

\* the matrix after the aggregation pass: every cell of a persona holds the
\* items, counted 1.0 each, and 0.5 for each of its mentions
AggregatedPair(content_items, lower, higher) ==
    [keys |-> MatrixKeys(ScorePersonas),
     cells |-> [name \in {"lower", "higher"} |->
                  [stage \in Range(funnel_stages) |->
                      [EmptyCell EXCEPT
                          !.content_count = 10 * Len(content_items)
                                              + 5 * (IF name = "lower" THEN lower ELSE higher),
                          !.content_items = content_items]]]]

----------------------------------------------------------------------------
(* The state machine *)

\* a step of the GapAnalyzer consults no oracle and no classifier
NoInputs == args' = None /\ UNCHANGED <<remembered, session>>

HasCounts(matrix) ==
    \E name \in DOMAIN matrix.cells : \E stage \in DOMAIN matrix.cells[name] :
        matrix.cells[name][stage].content_count > 0

Init ==
    /\ personas \in Rosters
    /\ coverage_matrix = EmptyMatrix
    /\ analyzed_content = <<>>
    /\ last_op = "__init__"
    /\ ret = None
    /\ runs = 0
    /\ had_counts = FALSE
    /\ args = None
    /\ remembered = None
    /\ rounding \in TieRoundings(coverage_matrix)
    /\ session = None

InitCell ==
    /\ personas \in CellRosters
    /\ coverage_matrix = EmptyMatrix
    /\ analyzed_content = <<>>
    /\ last_op = "__init__"
    /\ ret = None
    /\ runs = 0
    /\ had_counts = FALSE
    /\ args = None
    /\ remembered = None
    /\ rounding \in TieRoundings(coverage_matrix)
    /\ session = None

\* set_personas without the call of _initialize_matrix
SetPersonasNoInit(rosters) ==
    \E ps \in rosters :
        /\ personas' = ps
        /\ last_op' = "set_personas"
        /\ NoInputs
        /\ ret' = None
        /\ runs' = 0
        /\ had_counts' = HasCounts(coverage_matrix)
        /\ UNCHANGED <<coverage_matrix, analyzed_content, rounding>>

\* set_personas(personas)
SetPersonas(rosters) ==
    \E ps \in rosters :
        /\ personas' = ps
        /\ coverage_matrix' = InitializeMatrix(ps)
        /\ last_op' = "set_personas"
        /\ NoInputs
        /\ rounding' \in TieRoundings(coverage_matrix')
        /\ ret' = None
        /\ runs' = 0
        /\ had_counts' = HasCounts(coverage_matrix)
        /\ UNCHANGED analyzed_content

\* the caller appends one classification record to its list
AddRecord(records, max) ==
    /\ Len(analyzed_content) < max
    /\ \E r \in records : analyzed_content' = Append(analyzed_content, r)
    /\ last_op' = "append"
    /\ NoInputs
    /\ ret' = None
    /\ runs' = 0
    /\ had_counts' = HasCounts(coverage_matrix)
    /\ UNCHANGED <<personas, coverage_matrix, rounding>>

\* analyze_coverage without the call of _initialize_matrix
AnalyzeCoverageNoInit ==
    /\ coverage_matrix' = CalculateScores(Aggregate(coverage_matrix, analyzed_content))
    /\ last_op' = "analyze_coverage"
    /\ NoInputs
    /\ rounding' \in TieRoundings(coverage_matrix')
    /\ ret' = coverage_matrix'
    /\ runs' = Min(runs + 1, MaxRuns)
    /\ had_counts' = HasCounts(coverage_matrix)
    /\ UNCHANGED <<personas, analyzed_content>>

\* analyze_coverage(analyzed_content)
AnalyzeCoverage ==
    /\ coverage_matrix' = AnalyzeCoverageResult(personas, analyzed_content)
    /\ last_op' = "analyze_coverage"
    /\ NoInputs
    /\ rounding' \in TieRoundings(coverage_matrix')
    /\ ret' = coverage_matrix'
    /\ runs' = Min(runs + 1, MaxRuns)
    /\ had_counts' = HasCounts(coverage_matrix)
    /\ UNCHANGED <<personas, analyzed_content>>

\* get_gaps()
GetGaps ==
    /\ ret' = GetGapsResult(coverage_matrix)
    /\ last_op' = "get_gaps"
    /\ NoInputs
    /\ had_counts' = HasCounts(coverage_matrix)
    /\ UNCHANGED runs
    /\ UNCHANGED <<personas, coverage_matrix, analyzed_content, rounding>>

\* get_summary_stats()
GetSummaryStats ==
    /\ ret' = GetSummaryStatsResult(personas, coverage_matrix)
    /\ last_op' = "get_summary_stats"
    /\ NoInputs
    /\ had_counts' = HasCounts(coverage_matrix)
    /\ UNCHANGED runs
    /\ UNCHANGED <<personas, coverage_matrix, analyzed_content, rounding>>

\* get_stage_summary()
GetStageSummary ==
    /\ ret' = GetStageSummaryResult(coverage_matrix, rounding)
    /\ last_op' = "get_stage_summary"
    /\ NoInputs
    /\ had_counts' = HasCounts(coverage_matrix)
    /\ UNCHANGED runs
    /\ UNCHANGED <<personas, coverage_matrix, analyzed_content, rounding>>

\* get_persona_summary()
GetPersonaSummary ==
    /\ ret' = GetPersonaSummaryResult(coverage_matrix)
    /\ last_op' = "get_persona_summary"
    /\ NoInputs
    /\ had_counts' = HasCounts(coverage_matrix)
    /\ UNCHANGED runs
    /\ UNCHANGED <<personas, coverage_matrix, analyzed_content, rounding>>

\* the caller passes get_gaps(), get_strengths() and its roster to
\* generate_strategy
GenerateStrategy ==
    \E oracle \in StrategyOracles :
        LET gaps == GetGapsResult(coverage_matrix)
            strengths == GetStrengthsResult(coverage_matrix)
        IN  /\ ret' = GenerateStrategyResult(gaps, strengths, personas, oracle)
            /\ args' = [gaps |-> gaps, strengths |-> strengths, oracle |-> oracle]
            /\ last_op' = "generate_strategy"
            /\ had_counts' = HasCounts(coverage_matrix)
            /\ UNCHANGED <<runs, remembered>>
            /\ UNCHANGED <<personas, coverage_matrix, analyzed_content, rounding, session>>

\* ContentAnalyzer.set_personas(personas)
SetAnalyzerPersonas(rosters) ==
    \E ps \in rosters :
        /\ personas' = ps
        /\ last_op' = "set_personas"
        /\ NoInputs
        /\ ret' = None
        /\ UNCHANGED <<runs, had_counts>>
        /\ UNCHANGED <<coverage_matrix, analyzed_content, rounding>>

\* one call analyze_content(content) under an answer of the oracle
AnalyzeContentCall(content, oracle) ==
    /\ ret' = AnalyzeContentResult(personas, content, oracle)
    /\ args' = [contents |-> <<content>>, oracles |-> <<oracle>>]
    /\ last_op' = "analyze_content"
    /\ UNCHANGED <<runs, had_counts>>
    /\ UNCHANGED <<personas, coverage_matrix, analyzed_content, rounding, session>>

\* analyze_content(content)
AnalyzeContent(contents, oracles) ==
    \E content \in contents : \E oracle \in oracles :
        /\ AnalyzeContentCall(content, oracle)
        /\ UNCHANGED remembered

\* analyze_content(content) without client, the call kept in remembered
AnalyzeAndRemember(contents) ==
    /\ remembered = <<>>
    /\ \E content \in contents :
          /\ AnalyzeContentCall(content, NoClient)
          /\ remembered' = <<[content |-> content, personas |-> personas,
                              analyzed |-> Len(analyzed_content),
                              analysis |-> ret']>>

\* batch_analyze(contents): every item is analysed under its own answer of
\* the oracle, or all without client; ret is [results |-> the returned list]
\* or the exception
BatchAnalyze(items, answers) ==
    \E n \in 0..(MaxAnalyzed - Len(analyzed_content)) :
    \E contents \in [1..n -> items] :
    \E oracles \in [1..n -> answers] \cup {[i \in 1..n |-> NoClient]} :
        LET batch == BatchFrom(personas, contents, oracles, 1, <<>>, analyzed_content)
        IN  /\ ret' = [key \in DOMAIN batch \ {"analyzed_content"} |-> batch[key]]
            /\ analyzed_content' = batch.analyzed_content
            /\ args' = [contents |-> contents, oracles |-> oracles]
            /\ last_op' = "batch_analyze"
            /\ UNCHANGED <<runs, had_counts, remembered>>
            /\ UNCHANGED <<personas, coverage_matrix, rounding, session>>

\* the caller exchanges two neighbouring records of its list
ReorderContent ==
    /\ \E i \in 1..(Len(analyzed_content) - 1) :
          /\ analyzed_content[i] # analyzed_content[i + 1]
          /\ analyzed_content' = [analyzed_content EXCEPT ![i] = analyzed_content[i + 1],
                                                         ![i + 1] = analyzed_content[i]]
    /\ last_op' = "reorder"
    /\ NoInputs
    /\ ret' = None
    /\ had_counts' = HasCounts(coverage_matrix)
    /\ UNCHANGED runs
    /\ UNCHANGED <<personas, coverage_matrix, rounding>>

\* get_strengths() that cuts the content_items of the strong cells to three
GetStrengthsInPlace ==
    /\ ret' = GetStrengthsResult(coverage_matrix)
    /\ coverage_matrix' =
           [coverage_matrix EXCEPT !.cells =
               [name \in DOMAIN coverage_matrix.cells |->
                   [stage \in DOMAIN coverage_matrix.cells[name] |->
                       LET cell == coverage_matrix.cells[name][stage]
                       IN  IF cell.status = "strong"
                           THEN [cell EXCEPT !.content_items = Take(cell.content_items, 3)]
                           ELSE cell]]]
    /\ last_op' = "get_strengths"
    /\ NoInputs
    /\ had_counts' = HasCounts(coverage_matrix)
    /\ UNCHANGED runs
    /\ UNCHANGED <<personas, analyzed_content, rounding>>

\* get_strengths()
GetStrengths ==
    /\ ret' = GetStrengthsResult(coverage_matrix)
    /\ last_op' = "get_strengths"
    /\ NoInputs
    /\ had_counts' = HasCounts(coverage_matrix)
    /\ UNCHANGED runs
    /\ UNCHANGED <<personas, coverage_matrix, analyzed_content, rounding>>

\* get_moderate_areas()
GetModerateAreas ==
    /\ ret' = GetModerateAreasResult(coverage_matrix)
    /\ last_op' = "get_moderate_areas"
    /\ NoInputs
    /\ had_counts' = HasCounts(coverage_matrix)
    /\ UNCHANGED runs
    /\ UNCHANGED <<personas, coverage_matrix, analyzed_content, rounding>>

\* export_matrix(): the matrix itself
ExportMatrix ==
    /\ ret' = coverage_matrix
    /\ last_op' = "export_matrix"
    /\ NoInputs
    /\ had_counts' = HasCounts(coverage_matrix)
    /\ UNCHANGED runs
    /\ UNCHANGED <<personas, coverage_matrix, analyzed_content, rounding>>

\* the persona page adds a persona to the list of the PersonaManager and
\* stores the manager's list as the session's roster; a GapAnalyzer that was
\* handed this list holds the same list object
AddPersonas(pool) ==
    /\ Len(session.personas) < MaxSessionPersonas
    /\ \E p \in pool :
          /\ session' = [session EXCEPT !.personas = Append(@, p), !.managed = TRUE]
          /\ personas' = IF session.shared THEN Append(personas, p) ELSE personas
    /\ last_op' = "add_personas"
    /\ args' = None
    /\ ret' = None
    /\ UNCHANGED <<runs, had_counts, remembered>>
    /\ UNCHANGED <<coverage_matrix, analyzed_content, rounding>>

\* the Run Analysis step: batch_analyze, analyze_coverage, get_gaps and
\* generate_strategy, each result stored in the session as soon as it is
\* there; an exception ends the step where it is raised
RunAnalysis(items, answers, strategy_answers) ==
    \E n \in 0..MaxSessionItems :
    \E contents \in [1..n -> items] :
    \E oracles \in [1..n -> answers] :
    \E oracle \in strategy_answers :
        LET ps == session.personas
            batch == BatchFrom(ps, contents, oracles, 1, <<>>, <<>>)
        IN  /\ last_op' = "run_analysis"
            /\ args' = [contents |-> contents, oracles |-> oracles, oracle |-> oracle]
            /\ UNCHANGED <<runs, had_counts>>
            /\ IF "raised" \in DOMAIN batch
               THEN /\ ret' = Raised(batch.raised)
                    /\ UNCHANGED <<personas, coverage_matrix, analyzed_content,
                                   remembered, rounding, session>>
               ELSE LET analyzed == batch.results
                        coverage == AnalyzeCoverageResult(ps, analyzed)
                        gaps == GetGapsResult(coverage)
                        strategy == GenerateStrategyResult(
                                        gaps, GetStrengthsResult(coverage), ps, oracle)
                    IN  /\ analyzed_content' = analyzed
                        /\ personas' = ps
                        /\ coverage_matrix' = coverage
                        /\ rounding' \in TieRoundings(coverage)
                        /\ remembered' = <<>>
                        /\ session' =
                              [session EXCEPT
                                  !.gaps = gaps,
                                  !.gap_analyzer = TRUE,
                                  !.shared = session.managed,
                                  !.strategy = IF IsRaised(strategy) THEN @ ELSE strategy,
                                  !.strategy_gaps = IF IsRaised(strategy) THEN @
                                                    ELSE <<gaps>>]
                        /\ ret' = IF IsRaised(strategy) THEN strategy
                                  ELSE [completed |-> TRUE]

\* the gap matrix page: nothing without coverage data, else
\* get_summary_stats, get_stage_summary and get_persona_summary of the
\* stored GapAnalyzer; the first summary since the run is kept in remembered
RenderGapMatrixPage ==
    /\ IF coverage_matrix.keys = <<>>
       THEN ret' = [rendered |-> FALSE] /\ UNCHANGED remembered
       ELSE LET summary == GetSummaryStatsResult(personas, coverage_matrix)
            IN  /\ ret' = [rendered |-> TRUE,
                           summary |-> summary,
                           stage_summary |-> GetStageSummaryResult(coverage_matrix, rounding),
                           persona_summary |-> GetPersonaSummaryResult(coverage_matrix)]
                /\ remembered' = IF remembered = <<>> THEN <<summary>> ELSE remembered
    /\ last_op' = "render_gap_matrix_page"
    /\ args' = None
    /\ UNCHANGED <<runs, had_counts, session>>
    /\ UNCHANGED <<personas, coverage_matrix, analyzed_content, rounding>>

\* _calculate_scores() on the aggregated matrix
CalculateScoresCall ==
        /\ coverage_matrix' = CalculateScores(coverage_matrix)
        /\ last_op' = "_calculate_scores"
        /\ NoInputs
        /\ rounding' \in TieRoundings(coverage_matrix')
        /\ ret' = None
        /\ UNCHANGED <<runs, had_counts>>
        /\ UNCHANGED <<personas, analyzed_content>>

Next ==
    \/ SetPersonas(Rosters)
    \/ AddRecord(Records, MaxRecords)
    \/ AnalyzeCoverage
    \/ GetGaps

NextCell ==
    \/ SetPersonas(CellRosters)
    \/ AddRecord(CellRecords, MaxCellRecords)
    \/ AnalyzeCoverage
    \/ GetGaps

InitReport ==
    /\ personas \in ReportRosters
    /\ coverage_matrix = EmptyMatrix
    /\ analyzed_content = <<>>
    /\ last_op = "__init__"
    /\ ret = None
    /\ runs = 0
    /\ had_counts = FALSE
    /\ args = None
    /\ remembered = None
    /\ rounding \in TieRoundings(coverage_matrix)
    /\ session = None

NextReport ==
    \/ SetPersonas(ReportRosters)
    \/ AddRecord(ReportRecords, MaxReportRecords)
    \/ AnalyzeCoverage
    \/ GetSummaryStats
    \/ GetStageSummary
    \/ GetPersonaSummary
    \/ GenerateStrategy

InitAnalyzer ==
    /\ personas \in AnalyzerRosters
    /\ coverage_matrix = EmptyMatrix
    /\ analyzed_content = <<>>
    /\ last_op = "__init__"
    /\ ret = None
    /\ runs = 0
    /\ had_counts = FALSE
    /\ args = None
    /\ remembered = <<>>
    /\ rounding \in TieRoundings(coverage_matrix)
    /\ session = None

InitFallback ==
    /\ personas \in FallbackRosters
    /\ coverage_matrix = EmptyMatrix
    /\ analyzed_content = <<>>
    /\ last_op = "__init__"
    /\ ret = None
    /\ runs = 0
    /\ had_counts = FALSE
    /\ args = None
    /\ remembered = <<>>
    /\ rounding \in TieRoundings(coverage_matrix)
    /\ session = None

NextAnalyzer ==
    \/ SetAnalyzerPersonas(AnalyzerRosters)
    \/ AnalyzeContent(AnalyzerContents, AnalyzerOracles)
    \/ BatchAnalyze(BatchContents, BatchOracles)

NextFallback ==
    \/ SetAnalyzerPersonas(FallbackRosters)
    \/ AnalyzeContent(BatchContents, BatchOracles \cup {NoClient})
    \/ AnalyzeAndRemember(BatchContents)
    \/ BatchAnalyze(BatchContents, BatchOracles)

InitScore ==
    /\ personas = ScorePersonas
    /\ \E content_items \in SeqsUpTo(ScoreItems, MaxScoreItems) :
       \E lower \in 0..MaxMentions : \E higher \in lower..MaxMentions :
           coverage_matrix = AggregatedPair(content_items, lower, higher)
    /\ analyzed_content = <<>>
    /\ last_op = "set_personas"
    /\ ret = None
    /\ runs = 0
    /\ had_counts = FALSE
    /\ args = None
    /\ remembered = None
    /\ rounding \in TieRoundings(coverage_matrix)
    /\ session = None

NextScore == CalculateScoresCall

\* initialize_session_state(): no personas, no analyzers, empty results
InitSession ==
    /\ personas = <<>>
    /\ coverage_matrix = EmptyMatrix
    /\ analyzed_content = <<>>
    /\ last_op = "initialize_session_state"
    /\ ret = None
    /\ runs = 0
    /\ had_counts = FALSE
    /\ args = None
    /\ remembered = <<>>
    /\ rounding \in TieRoundings(coverage_matrix)
    /\ session = [personas |-> <<>>,
                  managed |-> FALSE,
                  gap_analyzer |-> FALSE,
                  shared |-> FALSE,
                  gaps |-> <<>>,
                  strategy |-> <<>>,
                  strategy_gaps |-> <<>>]

NextSession ==
    \/ AddPersonas(SessionPersonaPool)
    \/ RunAnalysis(BatchContents, BatchOracles \cup {NoClient}, SessionOracles)
    \/ RenderGapMatrixPage

InitPriority ==
    /\ personas \in PriorityRosters
    /\ coverage_matrix = EmptyMatrix
    /\ analyzed_content = <<>>
    /\ last_op = "__init__"
    /\ ret = None
    /\ runs = 0
    /\ had_counts = FALSE
    /\ args = None
    /\ remembered = None
    /\ rounding \in TieRoundings(coverage_matrix)
    /\ session = None

NextPriority ==
    \/ SetPersonas(PriorityRosters)
    \/ AddRecord(PriorityRecords, MaxPriorityRecords)
    \/ AnalyzeCoverage
    \/ GetGaps
    \/ GenerateStrategy

InitLists ==
    /\ personas \in ListRosters
    /\ coverage_matrix = EmptyMatrix
    /\ analyzed_content = <<>>
    /\ last_op = "__init__"
    /\ ret = None
    /\ runs = 0
    /\ had_counts = FALSE
    /\ args = None
    /\ remembered = None
    /\ rounding \in TieRoundings(coverage_matrix)
    /\ session = None

NextLists ==
    \/ SetPersonas(ListRosters)
    \/ AddRecord(ListRecords, MaxListRecords)
    \/ ReorderContent
    \/ AnalyzeCoverage
    \/ GetGaps
    \/ GetStrengths
    \/ GetModerateAreas
    \/ GetSummaryStats
    \/ GetStageSummary
    \/ GetPersonaSummary
    \/ ExportMatrix

Spec == Init /\ [][Next]_vars

SpecScore == InitScore /\ [][NextScore]_vars

SpecSession == InitSession /\ [][NextSession]_vars

SpecPriority == InitPriority /\ [][NextPriority]_vars

SpecLists == InitLists /\ [][NextLists]_vars

SpecAnalyzer == InitAnalyzer /\ [][NextAnalyzer]_vars

SpecFallback == InitFallback /\ [][NextFallback]_vars

SpecReport == InitReport /\ [][NextReport]_vars

SpecCell == InitCell /\ [][NextCell]_vars

----------------------------------------------------------------------------
(* Vocabulary of the properties *)

StageSet == Range(funnel_stages)

RosterNames == {PersonaName(personas[i]) : i \in 1..Len(personas)}

MatrixNames == DOMAIN coverage_matrix.cells

Cell(name, stage) == coverage_matrix.cells[name][stage]

Analyzed == last_op = "analyze_coverage"

PrimaryOf(r) == Get(r, "primary_persona", "Unknown")
StageOf(r) == Get(r, "funnel_stage", "awareness")
SecondaryOf(r) == Get(r, "secondary_personas", <<>>)
ItemOf(r) ==
    [title |-> Get(r, "original_title", "Untitled"),
     source |-> Get(r, "original_source", ""),
     quality |-> Get(r, "quality_score", 50)]

\* number of records of the list with primary persona P and stage S
PrimaryCount(recs, P, S) ==
    Cardinality({i \in 1..Len(recs) : PrimaryOf(recs[i]) = P /\ StageOf(recs[i]) = S})

\* number of occurrences of P among the secondary personas of the records at stage S
SecondaryCount(recs, P, S) ==
    LET mentions == UNION {{<<i, j>> : j \in 1..Len(SecondaryOf(recs[i]))} :
                              i \in 1..Len(recs)}
    IN  Cardinality({ij \in mentions :
                        /\ StageOf(recs[ij[1]]) = S
                        /\ SecondaryOf(recs[ij[1]])[ij[2]] = P})

\* the references of the primary records of (P, S), in input order
PrimaryItems(recs, P, S) ==
    LET mine == SelectSeq(recs, LAMBDA r : PrimaryOf(r) = P /\ StageOf(r) = S)
    IN  [i \in 1..Len(mine) |-> ItemOf(mine[i])]

----------------------------------------------------------------------------
\* C1: after analyze_coverage(records), for every roster persona P and stage S
\* the cell (P, S) has content_count = (primary records of P at S) + 0.5 x
\* (occurrences of P in secondary_personas at S), and content_items holds one
\* {title, source, quality} reference per primary record, in input order, and
\* none for secondary contributions.
C1_CountsAndItems ==
    Analyzed =>
        \A P \in RosterNames : \A S \in StageSet :
            /\ HasCell(coverage_matrix, P, S)
            /\ Cell(P, S).content_count =
                   10 * PrimaryCount(analyzed_content, P, S)
                   + 5 * SecondaryCount(analyzed_content, P, S)
            /\ Cell(P, S).content_items = PrimaryItems(analyzed_content, P, S)

\* a cell holding two different references in input order, next to a cell
\* that was filled by secondary mentions only
C1_Witness ==
    /\ Analyzed
    /\ \E P \in RosterNames : \E S \in StageSet :
          /\ Len(Cell(P, S).content_items) = 2
          /\ Cell(P, S).content_items[1] # Cell(P, S).content_items[2]
    /\ \E P \in RosterNames : \E S \in StageSet :
          /\ Cell(P, S).content_items = <<>>
          /\ Cell(P, S).content_count = 10

----------------------------------------------------------------------------
QualitySum(cell) ==
    SumSeq([i \in 1..Len(cell.content_items) |-> cell.content_items[i].quality])

\* x is the tenth nearest to num / den (num in tenths)
NearestTenth(x, num, den) ==
    LET d == x * den - num
    IN  2 * (IF d < 0 THEN -d ELSE d) <= den

MeanIs(cell) ==
    IF cell.content_items = <<>>
    THEN cell.avg_quality.num = 0
    ELSE cell.avg_quality.num * Len(cell.content_items)
            = QualitySum(cell) * cell.avg_quality.den

ScoreIs(cell) ==
    LET n == IF cell.content_items = <<>> THEN 1 ELSE Len(cell.content_items)
        density == Min(100, (2 * cell.content_count))
    IN  NearestTenth(cell.coverage_score, 6 * density * n + 4 * QualitySum(cell), n)

AllQuality(cell, q) ==
    \A i \in 1..Len(cell.content_items) : cell.content_items[i].quality = q

\* C2: after analyze_coverage every cell has avg_quality = mean quality of its
\* content_items (0 when none) and coverage_score = round(min(100,
\* content_count / 5 * 100) * 0.6 + avg_quality * 0.4, 1); one record of
\* quality 80 gives 44.0, five records of quality 100 give 100.0.
C2_Scores ==
    Analyzed =>
        \A P \in MatrixNames : \A S \in StageSet :
            LET cell == Cell(P, S)
            IN  /\ MeanIs(cell)
                /\ ScoreIs(cell)
                /\ cell.content_count = 10 /\ Len(cell.content_items) = 1
                   /\ AllQuality(cell, 80) => cell.coverage_score = 440
                /\ cell.content_count = 50 /\ Len(cell.content_items) = 5
                   /\ AllQuality(cell, 100) => cell.coverage_score = 1000

\* five records of quality 100 in one cell
C2_Witness ==
    /\ Analyzed
    /\ \E P \in MatrixNames : \E S \in StageSet :
          /\ Cell(P, S).content_count = 50
          /\ Len(Cell(P, S).content_items) = 5
          /\ AllQuality(Cell(P, S), 100)
          /\ Cell(P, S).coverage_score = 1000

----------------------------------------------------------------------------
\* C3: in every state after set_personas or analyze_coverage each cell's
\* status is determined by its coverage_score: strong iff >= 70, moderate iff
\* 40 <= score < 70, gap iff < 40.
C3_StatusByThreshold ==
    \A P \in MatrixNames : \A S \in StageSet :
        LET cell == Cell(P, S)
        IN  /\ cell.status \in {"strong", "moderate", "gap"}
            /\ cell.status = "strong" <=> cell.coverage_score >= 700
            /\ cell.status = "moderate" <=>
                   (400 <= cell.coverage_score /\ cell.coverage_score < 700)
            /\ cell.status = "gap" <=> cell.coverage_score < 400

\* a cell scored exactly 70.0
C3_Witness ==
    /\ Analyzed
    /\ \E P \in MatrixNames : \E S \in StageSet :
          Cell(P, S).coverage_score = 700 /\ Cell(P, S).status = "strong"

----------------------------------------------------------------------------
\* C4 as stated: a second analyze_coverage in a row, on the same roster and
\* records, doubles content_count in every cell.
C4_SecondCallDoubles ==
    [][(runs >= 1 /\ last_op' = "analyze_coverage") =>
          \A P \in MatrixNames : \A S \in StageSet :
              coverage_matrix'.cells[P][S].content_count
                  = 2 * Cell(P, S).content_count]_vars

\* C4 (amended): a second analyze_coverage in a row, on the same roster and
\* records, leaves content_count in every cell as the first call set it,
\* because analyze_coverage re-initializes the matrix before it aggregates.
C4_SecondCallSame ==
    [][(runs >= 1 /\ last_op' = "analyze_coverage") =>
          /\ DOMAIN coverage_matrix'.cells = MatrixNames
          /\ \A P \in MatrixNames : \A S \in StageSet :
                coverage_matrix'.cells[P][S].content_count
                    = Cell(P, S).content_count]_vars

\* two calls in a row were made and cells hold content
C4_Witness ==
    /\ Analyzed
    /\ runs = 2
    /\ had_counts
    /\ HasCounts(coverage_matrix)

----------------------------------------------------------------------------
RemoveAt(recs, i) == SubSeq(recs, 1, i - 1) \o SubSeq(recs, i + 1, Len(recs))

CountsAndItems(matrix) ==
    [name \in DOMAIN matrix.cells |->
        [stage \in DOMAIN matrix.cells[name] |->
            <<matrix.cells[name][stage].content_count,
              matrix.cells[name][stage].content_items>>]]

\* C5: a record whose primary_persona matches no roster persona is counted
\* nowhere: analyze_coverage gives the same content_count and content_items
\* in every cell as it gives for the list without that record.
C5_UnknownPrimaryCountedNowhere ==
    Analyzed =>
        \A i \in 1..Len(analyzed_content) :
            PrimaryOf(analyzed_content[i]) \notin RosterNames =>
                CountsAndItems(coverage_matrix)
                    = CountsAndItems(AnalyzeCoverageResult(
                          personas, RemoveAt(analyzed_content, i)))

----------------------------------------------------------------------------
GotGaps == last_op = "get_gaps"

StageBonus(stage) ==
    CASE stage = "decision" -> 200
      [] stage = "consideration" -> 100
      [] OTHER -> 0

NoContent(P) == \A S \in StageSet : Cell(P, S).content_count = 0

----------------------------------------------------------------------------
\* urgency rank of a stage: decision before consideration before awareness
StageRank(stage) ==
    CASE stage = "decision" -> 1
      [] stage = "consideration" -> 2
      [] OTHER -> 3

\* C7: of two gaps with equal coverage_score in the list of get_gaps, the one
\* at decision comes before the one at consideration, which comes before the
\* one at awareness.
C7_LaterStageFirst ==
    GotGaps =>
        \A i \in 1..Len(ret) : \A j \in 1..Len(ret) :
            /\ ret[i].coverage_score = ret[j].coverage_score
            /\ StageRank(ret[i].stage) < StageRank(ret[j].stage)
            => i < j

----------------------------------------------------------------------------
RosterIndex(name) ==
    CHOOSE i \in 1..Len(personas) :
        /\ PersonaName(personas[i]) = name
        /\ \A j \in 1..(i - 1) : PersonaName(personas[j]) # name

StageIndex(stage) == CHOOSE i \in 1..Len(funnel_stages) : funnel_stages[i] = stage

\* place of a gap in the iteration over the roster and, within it, the stages
IterationPlace(g) == Len(funnel_stages) * RosterIndex(g.persona) + StageIndex(g.stage)

\* C8: the list of get_gaps is sorted by non-increasing priority, and gaps of
\* equal priority keep matrix iteration order: personas in roster order, the
\* stages of a persona in the order awareness, consideration, decision.
C8_SortedStable ==
    GotGaps =>
        \A i \in 1..Len(ret) : \A j \in 1..Len(ret) :
            i < j =>
                /\ ret[i].priority >= ret[j].priority
                /\ ret[i].priority = ret[j].priority =>
                       IterationPlace(ret[i]) < IterationPlace(ret[j])

\* the sort moved a later cell forward, and two gaps tie
C8_Witness ==
    /\ GotGaps
    /\ \E i \in 1..Len(ret) : \E j \in 1..Len(ret) :
          i < j /\ IterationPlace(ret[i]) > IterationPlace(ret[j])
    /\ \E i \in 1..Len(ret) : \E j \in 1..Len(ret) :
          i < j /\ ret[i].priority = ret[j].priority

----------------------------------------------------------------------------
MatrixCells ==
    UNION {{<<P, S>> : S \in DOMAIN coverage_matrix.cells[P]} : P \in MatrixNames}

\* C9: in every state reached by constructing a GapAnalyzer with a roster and
\* calling set_personas and analyze_coverage in any order, the matrix holds
\* exactly len(personas) x 3 cells, one per (roster persona, stage) pair.
C9_MatrixSize ==
    /\ Cardinality(MatrixCells) = Len(personas) * Len(funnel_stages)
    /\ MatrixCells = RosterNames \X StageSet

----------------------------------------------------------------------------
\* C10: after set_personas(personas), from any prior state, every cell of
\* every roster persona and stage has content_count 0, no content_items,
\* avg_quality 0, coverage_score 0 and status gap.
C10_SetPersonasZeroes ==
    last_op = "set_personas" =>
        /\ MatrixNames = RosterNames
        /\ \A P \in RosterNames : \A S \in StageSet :
              /\ HasCell(coverage_matrix, P, S)
              /\ Cell(P, S).content_count = 0
              /\ Cell(P, S).content_items = <<>>
              /\ Cell(P, S).avg_quality.num = 0
              /\ Cell(P, S).coverage_score = 0
              /\ Cell(P, S).status = "gap"

\* set_personas acted on a matrix that held content
C10_Witness ==
    /\ last_op = "set_personas"
    /\ had_counts
    /\ personas # <<>>

----------------------------------------------------------------------------
CellsOfStatus(status) == {c \in MatrixCells : Cell(c[1], c[2]).status = status}

\* C11: get_summary_stats never raises; with total_cells 0 (empty roster) it
\* returns gap_percentage 0 and coverage_percentage 0, and otherwise
\* gap_percentage is gap_count / total_cells * 100 and coverage_percentage is
\* (strong_count + moderate_count) / total_cells * 100, each rounded to one
\* decimal.
C11_SummaryStats ==
    last_op = "get_summary_stats" =>
        /\ ~IsRaised(ret)
        /\ ret.total_cells = Len(personas) * Cardinality(StageSet)
        /\ ret.gap_count = Cardinality(CellsOfStatus("gap"))
        /\ ret.strong_count = Cardinality(CellsOfStatus("strong"))
        /\ ret.moderate_count = Cardinality(CellsOfStatus("moderate"))
        /\ IF ret.total_cells = 0
           THEN ret.gap_percentage = 0 /\ ret.coverage_percentage = 0
           ELSE /\ NearestTenth(ret.gap_percentage,
                                ret.gap_count * 1000, ret.total_cells)
                /\ NearestTenth(ret.coverage_percentage,
                                (ret.strong_count + ret.moderate_count) * 1000,
                                ret.total_cells)

\* get_summary_stats answered for the empty roster
C11_Witness ==
    /\ last_op = "get_summary_stats"
    /\ personas = <<>>
    /\ ret.total_cells = 0
    /\ ret.gap_percentage = 0

----------------------------------------------------------------------------
ScoreAt(name, i) == Cell(name, funnel_stages[i]).coverage_score

MaxScore(name) ==
    CHOOSE m \in {ScoreAt(name, i) : i \in 1..Len(funnel_stages)} :
        \A i \in 1..Len(funnel_stages) : ScoreAt(name, i) <= m

\* C15: get_persona_summary reports as strongest_stage the first stage, in the
\* order awareness, consideration, decision, whose coverage_score equals the
\* maximum of the persona's scores; a persona whose scores are all 0 reports
\* no strongest stage.
C15_StrongestStage ==
    last_op = "get_persona_summary" =>
        \A name \in MatrixNames :
            IF MaxScore(name) = 0
            THEN ret[name].strongest_stage = <<>>
            ELSE \E i \in 1..Len(funnel_stages) :
                    /\ ret[name].strongest_stage = <<funnel_stages[i]>>
                    /\ ScoreAt(name, i) = MaxScore(name)
                    /\ \A j \in 1..(i - 1) : ScoreAt(name, j) < MaxScore(name)

\* a persona with its maximum at two stages, and a persona with no content
C15_Witness ==
    /\ last_op = "get_persona_summary"
    /\ \E name \in MatrixNames :
          /\ MaxScore(name) > 0
          /\ Cardinality({i \in 1..Len(funnel_stages) :
                              ScoreAt(name, i) = MaxScore(name)}) > 1
    /\ \E name \in MatrixNames :
          /\ MaxScore(name) = 0
          /\ ret[name].strongest_stage = <<>>

----------------------------------------------------------------------------
RECURSIVE SumOver(_, _)
SumOver(S, f) ==
    IF S = {} THEN 0
    ELSE LET x == CHOOSE y \in S : TRUE
         IN  f[x] + SumOver(S \ {x}, f)

ScoreSum(stage) ==
    SumOver(MatrixNames, [name \in MatrixNames |-> Cell(name, stage).coverage_score])

CountSum(stage) ==
    SumOver(MatrixNames, [name \in MatrixNames |-> Cell(name, stage).content_count])

StageTotalsAndGaps(stage) ==
    /\ ret[stage].total_content = CountSum(stage)
    /\ Range(ret[stage].personas_with_gaps)
          = {name \in MatrixNames : Cell(name, stage).status = "gap"}
    /\ Len(ret[stage].personas_with_gaps)
          = Cardinality(Range(ret[stage].personas_with_gaps))

\* C16 as stated: avg_coverage is the mean of coverage_score over the personas
C16_ExactMean ==
    last_op = "get_stage_summary" =>
        \A stage \in StageSet :
            /\ StageTotalsAndGaps(stage)
            /\ ret[stage].avg_coverage * Cardinality(MatrixNames) = ScoreSum(stage)

\* C16: get_stage_summary returns, for each of the three stages, total_content
\* = the sum of content_count over the personas of the matrix, avg_coverage =
\* the unweighted mean of their coverage_score rounded to one decimal (0 for
\* an empty matrix), and personas_with_gaps = exactly the personas whose cell
\* at that stage has status gap.
C16_StageSummary ==
    last_op = "get_stage_summary" =>
        /\ DOMAIN ret = StageSet
        /\ \A stage \in StageSet :
              /\ StageTotalsAndGaps(stage)
              /\ IF MatrixNames = {} THEN ret[stage].avg_coverage = 0
                 ELSE NearestTenth(ret[stage].avg_coverage, ScoreSum(stage),
                                   Cardinality(MatrixNames))

\* a stage of three personas whose mean score is not a multiple of 0.1
C16_Witness ==
    /\ last_op = "get_stage_summary"
    /\ Cardinality(MatrixNames) = 3
    /\ \E stage \in StageSet :
          /\ ScoreSum(stage) % 3 # 0
          /\ ret[stage].personas_with_gaps # <<>>
          /\ ret[stage].total_content > 0

----------------------------------------------------------------------------
StrategyFields ==
    {"executive_summary", "priority_content_to_create", "quarterly_calendar",
     "persona_specific_recommendations", "quick_wins", "long_term_initiatives",
     "metrics_to_track"}

\* C13: generate_strategy, for any gaps, strengths and personas and any
\* oracle behaviour (unavailable, raising, malformed text or parseable JSON),
\* returns without raising a Strategy that contains all of executive_summary,
\* priority_content_to_create, quarterly_calendar,
\* persona_specific_recommendations, quick_wins, long_term_initiatives and
\* metrics_to_track.
C13_AlwaysFullStrategy ==
    last_op = "generate_strategy" =>
        /\ ~IsRaised(ret)
        /\ StrategyFields \subseteq DOMAIN ret

----------------------------------------------------------------------------
\* the oracle gave no strategy: no client, a raising call or a text that
\* is no JSON document
OracleFailed(oracle) ==
    \/ ~oracle.client
    \/ oracle.raises
    \/ ~Parses(StripFences(oracle.response_text))

TypeFor(stage) ==
    CASE stage = "decision" -> "case_study"
      [] stage = "consideration" -> "whitepaper"
      [] OTHER -> "blog_post"

\* C17: the fallback strategy contains exactly one priority-content
\* recommendation for each of the first min(5, number of gaps) gaps of the gap
\* list, in the same order, with type case_study for a decision gap,
\* whitepaper for a consideration gap and blog_post otherwise, and priority
\* high if the gap's priority is > 70 and medium otherwise.
C17_FallbackRecommendations ==
    (last_op = "generate_strategy" /\ OracleFailed(args.oracle) /\ ~IsRaised(ret)) =>
        LET gaps == GetGapsResult(coverage_matrix)
            recs == ret.priority_content_to_create
        IN  /\ args.gaps = gaps
            /\ Len(recs) = Min(5, Len(gaps))
            /\ \A i \in 1..Len(recs) :
                  /\ recs[i].target_persona = gaps[i].persona
                  /\ recs[i].funnel_stage = gaps[i].stage
                  /\ recs[i].type = TypeFor(gaps[i].stage)
                  /\ recs[i].priority
                        = (IF gaps[i].priority > 700 THEN "high" ELSE "medium")

\* a fallback strategy for more than five gaps, with recommendations of
\* every type and of both priorities
C17_Witness ==
    /\ last_op = "generate_strategy"
    /\ OracleFailed(args.oracle)
    /\ ~IsRaised(ret)
    /\ Len(args.gaps) > 5
    /\ {ret.priority_content_to_create[i].type :
            i \in 1..Len(ret.priority_content_to_create)}
          = {"case_study", "whitepaper", "blog_post"}
    /\ {ret.priority_content_to_create[i].priority :
            i \in 1..Len(ret.priority_content_to_create)}
          = {"high", "medium"}

----------------------------------------------------------------------------
FallbackSummary == "Automated analysis - AI not available"

\* C12: batch_analyze returns exactly one classification record per input
\* item, in input order; an item whose oracle call fails (unavailable, raises
\* or returns unparseable text) gets the fallback record and the later items
\* are still processed: the batch never aborts.
C12_OneRecordPerItem ==
    last_op = "batch_analyze" =>
        /\ ~IsRaised(ret)
        /\ Len(ret.results) = Len(args.contents)
        /\ \A i \in 1..Len(args.contents) :
              /\ ret.results[i].original_title = GetOptional(args.contents[i], "title")
              /\ ret.results[i].original_source = GetOptional(args.contents[i], "source")
              /\ OracleFailed(args.oracles[i]) =>
                    ret.results[i].summary = FallbackSummary

----------------------------------------------------------------------------
\* C14: every record returned by analyze_content, from the oracle or from the
\* fallback, has a funnel_stage among awareness, consideration and decision
\* and a primary_persona that is a roster persona name or "Unknown".
C14_StageAndPersonaValid ==
    (last_op = "analyze_content" /\ ~IsRaised(ret)) =>
        /\ {"funnel_stage", "primary_persona"} \subseteq DOMAIN ret
        /\ ret.funnel_stage \in StageSet
        /\ ret.primary_persona \in RosterNames \cup {"Unknown"}

----------------------------------------------------------------------------
\* the call was answered by the fallback classifier
FellBack ==
    /\ last_op = "analyze_content"
    /\ ~IsRaised(ret)
    /\ \/ OracleFailed(args.oracles[1])
       \/ StripFences(args.oracles[1].response_text)[1] \in JsonArrays

CalledText == Lower(Get(args.contents[1], "content", <<>>))

CalledTitle ==
    IF "title" \in DOMAIN args.contents[1] THEN Lower(args.contents[1].title[1])
    ELSE <<>>

KeywordOccurs(keywords) ==
    \E keyword \in Range(keywords) :
        Occurs(keyword, CalledText) \/ Occurs(keyword, CalledTitle)

\* C18: the fallback classifier assigns funnel_stage decision whenever a
\* decision keyword occurs in the text or title, even if other keywords occur
\* too, consideration when no decision keyword but a consideration keyword
\* occurs, and awareness otherwise.
C18_StageByKeywords ==
    FellBack =>
        ret.funnel_stage =
            (IF KeywordOccurs(decision_keywords) THEN "decision"
             ELSE IF KeywordOccurs(consideration_keywords) THEN "consideration"
             ELSE "awareness")

\* a fallback record for a title with a decision keyword and a text with a
\* consideration keyword
C18_Witness ==
    /\ FellBack
    /\ \E keyword \in Range(decision_keywords) : Occurs(keyword, CalledTitle)
    /\ \E keyword \in Range(consideration_keywords) : Occurs(keyword, CalledText)
    /\ ret.funnel_stage = "decision"

----------------------------------------------------------------------------
\* the number of pain_points/goals entries of a persona in the text
Matches(persona) ==
    LET entries == Get(persona, "pain_points", <<>>) \o Get(persona, "goals", <<>>)
    IN  Cardinality({i \in 1..Len(entries) : Occurs(Lower(entries[i]), CalledText)})

ScoreOf(persona) == Min(100, 50 + 10 * Matches(persona))

\* C19: the fallback classifier scores each roster persona min(100, 50 + 10 x
\* the number of its pain_points/goals entries that occur in the text), and
\* picks as primary_persona the first persona in roster order with the highest
\* score, or "Unknown" when the roster is empty.
C19_ScoresAndPrimary ==
    FellBack =>
        /\ \A i \in 1..Len(personas) :
              ret.persona_scores.scores[PersonaName(personas[i])] = ScoreOf(personas[i])
        /\ IF personas = <<>> THEN ret.primary_persona = "Unknown"
           ELSE \E i \in 1..Len(personas) :
                   /\ ret.primary_persona = PersonaName(personas[i])
                   /\ \A j \in 1..Len(personas) :
                          ScoreOf(personas[j]) <= ScoreOf(personas[i])
                   /\ \A j \in 1..(i - 1) :
                          ScoreOf(personas[j]) < ScoreOf(personas[i])

----------------------------------------------------------------------------
\* a call without client with the content and the roster of the remembered
\* call
SameCallAgain ==
    /\ last_op = "analyze_content"
    /\ remembered # <<>>
    /\ ~args.oracles[1].client
    /\ args.contents[1] = remembered[1].content
    /\ personas = remembered[1].personas

----------------------------------------------------------------------------
\* C21: for a cell whose content_items (hence avg_quality) are held fixed, a
\* larger content_count never gives a smaller coverage_score, and all
\* content_count values >= 5 give the same coverage_score.
C21_MonotoneSaturating ==
    last_op = "_calculate_scores" =>
        \A S \in StageSet :
            (/\ Cell("lower", S).content_items = Cell("higher", S).content_items
             /\ Cell("lower", S).content_count <= Cell("higher", S).content_count)
            => /\ Cell("lower", S).coverage_score <= Cell("higher", S).coverage_score
               /\ Cell("lower", S).content_count >= 50
                    => Cell("lower", S).coverage_score = Cell("higher", S).coverage_score

\* two cells of the same items with content_count 5.0 or more, one above
\* the other
C21_Witness ==
    /\ last_op = "_calculate_scores"
    /\ Cell("lower", "awareness").content_items # <<>>
    /\ Cell("lower", "awareness").content_items = Cell("higher", "awareness").content_items
    /\ Cell("lower", "awareness").content_count >= 50
    /\ Cell("lower", "awareness").content_count < Cell("higher", "awareness").content_count
    /\ Cell("lower", "awareness").coverage_score = Cell("higher", "awareness").coverage_score

----------------------------------------------------------------------------
\* the cell a list entry stands for
CellOf(entry) == <<entry.persona, entry.stage>>

----------------------------------------------------------------------------
\* the scoring fields of every cell agree in two matrices
SameScoring(before, after) ==
    /\ before.keys = after.keys
    /\ \A name \in DOMAIN before.cells : \A stage \in DOMAIN before.cells[name] :
          LET old == before.cells[name][stage]
              new == after.cells[name][stage]
          IN  /\ new.content_count = old.content_count
              /\ new.avg_quality.num * old.avg_quality.den
                    = old.avg_quality.num * new.avg_quality.den
              /\ new.coverage_score = old.coverage_score
              /\ new.status = old.status

\* a strength list without the top_content of its entries
WithoutTopContent(strengths) ==
    [i \in 1..Len(strengths) |->
        [key \in DOMAIN strengths[i] \ {"top_content"} |-> strengths[i][key]]]

\* analyze_coverage ran on a permutation of the list the matrix was built from
Reanalyzed == last_op' = "analyze_coverage" /\ runs >= 1

\* C23 as stated: for any permutation of the same records, analyze_coverage
\* yields the same content_count, avg_quality, coverage_score and status in
\* every cell, and the same gap, moderate and strength lists.
C23_OrderInsensitive ==
    [][Reanalyzed =>
          /\ SameScoring(coverage_matrix, coverage_matrix')
          /\ GetGapsResult(coverage_matrix') = GetGapsResult(coverage_matrix)
          /\ GetModerateAreasResult(coverage_matrix')
                = GetModerateAreasResult(coverage_matrix)
          /\ GetStrengthsResult(coverage_matrix') = GetStrengthsResult(coverage_matrix)]_vars

\* C23: for any permutation of the same records, analyze_coverage yields the
\* same content_count, avg_quality, coverage_score and status in every cell,
\* the same gap and moderate lists, and the same strong cells with the same
\* scores and counts in the strength list; the top_content of a strength is
\* the first three items of the permuted order.
C23_OrderAffectsItemsOnly ==
    [][Reanalyzed =>
          /\ SameScoring(coverage_matrix, coverage_matrix')
          /\ GetGapsResult(coverage_matrix') = GetGapsResult(coverage_matrix)
          /\ GetModerateAreasResult(coverage_matrix')
                = GetModerateAreasResult(coverage_matrix)
          /\ WithoutTopContent(GetStrengthsResult(coverage_matrix'))
                = WithoutTopContent(GetStrengthsResult(coverage_matrix))
          /\ \A name \in DOMAIN coverage_matrix'.cells : \A stage \in StageSet :
                coverage_matrix'.cells[name][stage].content_items
                  = PrimaryItems(analyzed_content', name, stage)]_vars

\* the list was analysed again without a record added: a strong cell of four
\* items whose fourth title is not among its top_content
C23_Witness ==
    /\ last_op = "analyze_coverage"
    /\ runs >= 2
    /\ \E c \in CellsOfStatus("strong") :
          LET content_items == Cell(c[1], c[2]).content_items
          IN  /\ Len(content_items) > 3
              /\ \A k \in 1..3 : content_items[k].title # content_items[4].title

----------------------------------------------------------------------------
Getters ==
    {"get_gaps", "get_strengths", "get_moderate_areas", "get_summary_stats",
     "get_stage_summary", "get_persona_summary", "export_matrix"}

\* C24: any call of get_gaps, get_strengths, get_moderate_areas,
\* get_summary_stats, get_stage_summary, get_persona_summary or export_matrix
\* leaves the roster and every cell of the coverage matrix unchanged, and a
\* call repeated after calls of these only returns the same result.
C24_GettersKeepMatrix ==
    [][last_op' \in Getters =>
          /\ personas' = personas
          /\ coverage_matrix' = coverage_matrix
          /\ last_op' = last_op => ret' = ret]_vars

\* get_stage_summary answered on a scored matrix with a stage whose mean
\* lies on a rounding tie that the floats round up
C24_Witness ==
    /\ last_op = "get_stage_summary"
    /\ runs >= 1
    /\ had_counts
    /\ \E stage \in StageSet : IsTie(coverage_matrix, stage) /\ rounding[stage]

----------------------------------------------------------------------------
\* the number of entries of a list that stand for the cell
Entries(list, c) == Cardinality({i \in 1..Len(list) : CellOf(list[i]) = c})

\* C25: in every reachable state each cell of the coverage matrix appears in
\* exactly one of the lists returned by get_gaps, get_moderate_areas and
\* get_strengths, so gap_count + moderate_count + strong_count in
\* get_summary_stats equals the number of cells in the matrix.
C25_ListsPartitionCells ==
    LET gaps == GetGapsResult(coverage_matrix)
        moderate == GetModerateAreasResult(coverage_matrix)
        strengths == GetStrengthsResult(coverage_matrix)
    IN  /\ \A c \in MatrixCells :
              Entries(gaps, c) + Entries(moderate, c) + Entries(strengths, c) = 1
        /\ \A i \in 1..Len(gaps) : CellOf(gaps[i]) \in MatrixCells
        /\ \A i \in 1..Len(moderate) : CellOf(moderate[i]) \in MatrixCells
        /\ \A i \in 1..Len(strengths) : CellOf(strengths[i]) \in MatrixCells
        /\ last_op = "get_gaps" => ret = gaps
        /\ last_op = "get_moderate_areas" => ret = moderate
        /\ last_op = "get_strengths" => ret = strengths
        /\ last_op = "get_summary_stats" =>
              ret.gap_count + ret.moderate_count + ret.strong_count
                = Cardinality(MatrixCells)

\* get_summary_stats counted cells of all three statuses
C25_Witness ==
    /\ last_op = "get_summary_stats"
    /\ ret.gap_count > 0
    /\ ret.moderate_count > 0
    /\ ret.strong_count > 0
    /\ \E c \in CellsOfStatus("gap") : Cell(c[1], c[2]).content_count > 0

----------------------------------------------------------------------------
\* the gaps handed to the call: the list of get_gaps, or the one
\* generate_strategy received
GapsOfCall ==
    IF last_op = "get_gaps" THEN ret
    ELSE IF last_op = "generate_strategy" THEN args.gaps
    ELSE <<>>

\* C26: for records with quality_score in 0..100, every gap returned by
\* get_gaps has priority > 60 and <= 100, and every gap at the consideration
\* or decision stage has priority > 70; the fallback strategy labels a
\* recommendation medium only for an awareness-stage gap whose coverage_score
\* is at least 30, and high in every other case.
C26_GapPriorities ==
    /\ \A i \in 1..Len(GapsOfCall) :
          /\ GapsOfCall[i].priority > 600
          /\ GapsOfCall[i].priority <= 1000
          /\ GapsOfCall[i].stage \in {"consideration", "decision"}
                => GapsOfCall[i].priority > 700
    /\ (last_op = "generate_strategy" /\ OracleFailed(args.oracle) /\ ~IsRaised(ret)) =>
          \A i \in 1..Len(ret.priority_content_to_create) :
              ret.priority_content_to_create[i].priority
                = (IF /\ args.gaps[i].stage = "awareness"
                      /\ args.gaps[i].coverage_score >= 300
                   THEN "medium" ELSE "high")

\* a fallback strategy with a medium recommendation for an awareness gap of
\* score 30.0 and a high one for a consideration gap
C26_Witness ==
    /\ last_op = "generate_strategy"
    /\ OracleFailed(args.oracle)
    /\ ~IsRaised(ret)
    /\ \E i \in 1..Len(ret.priority_content_to_create) :
          /\ ret.priority_content_to_create[i].priority = "medium"
          /\ args.gaps[i].coverage_score = 300
    /\ \E i \in 1..Len(ret.priority_content_to_create) :
          /\ ret.priority_content_to_create[i].priority = "high"
          /\ args.gaps[i].stage = "consideration"

----------------------------------------------------------------------------
\* every record is one of the fallback classifier for a roster persona:
\* quality_score 50 and no secondary personas
AllFromFallback ==
    \A i \in 1..Len(analyzed_content) :
        /\ Get(analyzed_content[i], "quality_score", 0) = 50
        /\ SecondaryOf(analyzed_content[i]) = <<>>
        /\ PrimaryOf(analyzed_content[i]) \in RosterNames

\* C27: when every record comes from the fallback classifier (quality_score
\* 50, no secondary personas) and the roster is non-empty, a cell holding n
\* records has coverage_score min(12 n + 20, 80) for n >= 1 and 0 for n = 0:
\* its status is gap for n <= 1, moderate for 2 <= n <= 4 and strong for
\* n >= 5.
C27_FallbackOnlyScores ==
    (Analyzed /\ AllFromFallback /\ personas # <<>>) =>
        \A P \in MatrixNames : \A S \in StageSet :
            LET n == PrimaryCount(analyzed_content, P, S)
            IN  /\ Cell(P, S).coverage_score
                      = (IF n = 0 THEN 0 ELSE Min(120 * n + 200, 800))
                /\ Cell(P, S).status
                      = (IF n <= 1 THEN "gap" ELSE IF n <= 4 THEN "moderate" ELSE "strong")

\* five fallback records in one cell
C27_Witness ==
    /\ Analyzed
    /\ AllFromFallback
    /\ \E P \in MatrixNames : \E S \in StageSet :
          /\ PrimaryCount(analyzed_content, P, S) >= 5
          /\ Cell(P, S).status = "strong"
          /\ Cell(P, S).coverage_score = 800

----------------------------------------------------------------------------
\* C28: after analyze_coverage, a cell that received only secondary-persona
\* contributions (empty content_items) has avg_quality 0 and coverage_score
\* <= 60 and is never strong, whatever its content_count; a cell with
\* content_count 0 always has status gap.
C28_SecondaryOnlyCells ==
    Analyzed =>
        \A c \in MatrixCells :
            /\ Cell(c[1], c[2]).content_items = <<>> =>
                  /\ Cell(c[1], c[2]).avg_quality.num = 0
                  /\ Cell(c[1], c[2]).coverage_score <= 600
                  /\ Cell(c[1], c[2]).status # "strong"
            /\ Cell(c[1], c[2]).content_count = 0 => Cell(c[1], c[2]).status = "gap"

\* a cell with secondary mentions and no items, beside a cell without content
C28_Witness ==
    /\ Analyzed
    /\ \E c \in MatrixCells :
          /\ Cell(c[1], c[2]).content_items = <<>>
          /\ Cell(c[1], c[2]).content_count >= 20
    /\ \E c \in MatrixCells : Cell(c[1], c[2]).content_count = 0

----------------------------------------------------------------------------
\* C29: once analyze_coverage has run, get_summary_stats keeps returning the
\* same total_cells, gap_percentage and coverage_percentage until set_personas
\* or analyze_coverage is called again, even if personas are meanwhile added
\* to the session roster through PersonaManager.add_personas.
C29_StatsStableUnderAddPersonas ==
    (last_op = "render_gap_matrix_page" /\ remembered # <<>>) =>
        /\ ret.summary.total_cells = remembered[1].total_cells
        /\ ret.summary.gap_percentage = remembered[1].gap_percentage
        /\ ret.summary.coverage_percentage = remembered[1].coverage_percentage

----------------------------------------------------------------------------
\* a roster of the names that key the matrix
MatrixRoster ==
    [i \in 1..Len(coverage_matrix.keys) |-> [name |-> coverage_matrix.keys[i]]]

\* C30: whenever a Run Analysis step is not in progress, the session's
\* analyzed_content, coverage_matrix, gaps and strategy derive from the same
\* run: the stored gaps equal get_gaps() of the stored gap analyzer, and the
\* stored strategy was generated from exactly those gaps.
C30_SessionFromOneRun ==
    IF session.gap_analyzer
    THEN /\ coverage_matrix = AnalyzeCoverageResult(MatrixRoster, analyzed_content)
         /\ session.gaps = GetGapsResult(coverage_matrix)
         /\ session.strategy_gaps = <<session.gaps>>
    ELSE /\ analyzed_content = <<>>
         /\ coverage_matrix = EmptyMatrix
         /\ session.gaps = <<>>
         /\ session.strategy_gaps = <<>>

\* C30 without the strategy: the stored analyzed_content, coverage_matrix and
\* gaps belong to one run
C30_ResultsFromOneRun ==
    session.gap_analyzer =>
        /\ coverage_matrix = AnalyzeCoverageResult(MatrixRoster, analyzed_content)
        /\ session.gaps = GetGapsResult(coverage_matrix)

====
